---- MODULE Spec2Model ----
(***************************************************************************)
(* Model of src/index.js: the in-memory conversation store and the three   *)
(* HTTP handlers (chatBot, clearConversation, getConversationHistory).     *)
(* JavaScript runs each handler to completion between awaits, so one       *)
(* action is the code between two suspension points.                       *)
(***************************************************************************)
EXTENDS Integers, Sequences, FiniteSets, TLC

\* ------------------------------------------------------------------ bounds
MaxRequests == 2        \* chat requests admitted in one behaviour of Spec
MaxInFlight == 2        \* chat requests suspended at once in Spec
MaxLongRequests == 6    \* chat requests admitted in one behaviour of SpecLong
MaxLongInFlight == 1    \* chat requests suspended at once in SpecLong
MaxFailures == 1        \* external calls that fail in one behaviour
MaxPieces == 6          \* pieces a model reply is made of in SpecSQL

\* --------------------------------------------------------------- constants
MaxHistory == 10        \* index.js:50  "Keep only last 10 messages"

Requests == 1..MaxRequests
LongRequests == 1..MaxLongRequests
AllRequests == Requests \cup LongRequests

\* A value that is undefined in JavaScript (a missing property).
Undefined == "undefined"
DefaultId == "default"                      \* index.js:25, 243, 262
\* conversationId values a request body may carry
ChatBodyIds  == {Undefined, "a"}
AdminBodyIds == {Undefined, "a"}
LongBodyIds  == {Undefined, ""}

\* message values of a chat body: no message object, a message object
\* without text, a message object with text (the text names the request)
NoMessage == [kind |-> "nomessage", of |-> 0]
NoText    == [kind |-> "notext", of |-> 0]
TextOf(k) == [kind |-> "text", of |-> k]
UndefinedText == [kind |-> "undefined", of |-> 0]
AnswerOf(k) == [kind |-> "answer", of |-> k]

NoBody == [message |-> NoMessage, conversationId |-> Undefined]
NoExchange == [endpoint |-> "none", request |-> 0, body |-> NoBody, res |-> [status |-> 0]]

VARIABLES
    conversationHistory,  \* the Map: a function from the known ids to histories
    now,                  \* the clock read by new Date()
    pc,                   \* pc[k]: where chat request k is
    body,                 \* body[k]: req.body of chat request k while it runs
    messageText,          \* processMessage's messageText
    conversationId,       \* chatBot's conversationId
    geminiPrompt,         \* processMessage's geminiPrompt
    geminiText,           \* getSQLFromGemini's geminiText
    sqlQuery,             \* processMessage's sqlQuery
    bigQueryResult,       \* processMessage's bigQueryResult
    last,                 \* the last response sent, with its endpoint and request
    responses,            \* responses[k]: the statuses sent to chat request k
    calls,                \* calls[k]: the external calls chat request k has made
    failures,             \* external failures so far
    appendLog             \* per id, the turns appended since its last clear

vars == <<conversationHistory, now, pc, body, messageText, conversationId,
          geminiPrompt, geminiText, sqlQuery, bigQueryResult, last, responses,
          calls, failures, appendLog>>

\* ------------------------------------------------------ conversation store
\* C7 mutant: only a missing id is defaulted, and to another sentinel
OrOther(id) == IF id = Undefined THEN "a" ELSE id

\* req.body.conversationId || 'default'
OrDefault(id) == IF id = Undefined \/ id = "" THEN DefaultId ELSE id

getConversationHistory(store, id) ==
    IF id \in DOMAIN store THEN store[id] ELSE <<>>

Turn(role, content, ts) == [role |-> role, content |-> content, timestamp |-> ts]

\* C1 mutant: the length test is off by one
TruncateLate(h) ==
    IF Len(h) > MaxHistory + 1 THEN SubSeq(h, Len(h) - MaxHistory + 1, Len(h)) ELSE h

\* C2 mutant: the newest turns are dropped instead of the oldest
TruncateNewest(h) ==
    IF Len(h) > MaxHistory THEN SubSeq(h, 1, MaxHistory) ELSE h

\* history.splice(0, history.length - 10) when history.length > 10
Truncate(h) ==
    IF Len(h) > MaxHistory THEN SubSeq(h, Len(h) - MaxHistory + 1, Len(h)) ELSE h

\* C17 mutant: the append writes back a history holding the new turn alone
addReplacesHistory(store, id, role, content, ts) ==
    [i \in DOMAIN store \cup {id} |->
        IF i = id THEN <<Turn(role, content, ts)>> ELSE store[i]]

\* C18 mutant: an assistant turn is dropped when its conversation is gone
addSkipsClearedAssistant(store, id, role, content, ts) ==
    IF role = "assistant" /\ id \notin DOMAIN store THEN store
    ELSE LET created == IF id \in DOMAIN store THEN store ELSE store @@ (id :> <<>>)
             pushed  == Append(created[id], Turn(role, content, ts))
         IN  [created EXCEPT ![id] = Truncate(pushed)]

\* C19 mutant: the first append for an id creates its entry and stores nothing
addCreatesEmpty(store, id, role, content, ts) ==
    IF id \notin DOMAIN store THEN store @@ (id :> <<>>)
    ELSE [store EXCEPT ![id] = Truncate(Append(store[id], Turn(role, content, ts)))]

addToConversationHistory(store, id, role, content, ts) ==
    LET created == IF id \in DOMAIN store THEN store ELSE store @@ (id :> <<>>)
        pushed  == Append(created[id], Turn(role, content, ts))
    IN  [created EXCEPT ![id] = Truncate(pushed)]

\* C4 mutant: the history is emptied, the entry stays
clearKeepsEntry(store, id) ==
    [i \in DOMAIN store |-> IF i = id THEN <<>> ELSE store[i]]

\* C16 mutant: a clear empties the whole store
clearEveryConversation(store, id) ==
    [i \in {} |-> <<>>]

clearConversationHistory(store, id) ==
    [i \in DOMAIN store \ {id} |-> store[i]]

getAllConversationIds(store) == DOMAIN store

\* ------------------------------------------------------------ pure helpers
NoPrompt == [context |-> <<>>, question |-> UndefinedText, built |-> FALSE]
NoRows == "norows"
Rows == "rows"

\* C13 mutant: every line is labelled as a User line
ContextLineAllUser(msg) ==
    [speaker |-> "User", content |-> msg.content]

\* buildPrompt: the conversation context is one line per stored turn, in order
ContextLine(msg) ==
    [speaker |-> IF msg.role = "user" THEN "User" ELSE "Assistant",
     content |-> msg.content]

buildPrompt(text, history) ==
    [context |-> [n \in 1..Len(history) |-> ContextLine(history[n])],
     question |-> text, built |-> TRUE]

\* strings of the model's reply are sequences of one-character strings
\* BQ is the backquote character
BQ == "BQ"
Fence == <<BQ, BQ, BQ>>
Whitespace == {" ", "\n", "\t", "\r"}
\* C10 mutant: the pattern is matched case-sensitively
SameCase(c) == c

Lower(c) == CASE c = "S" -> "s" [] c = "Q" -> "q" [] c = "L" -> "l" [] OTHER -> c

RECURSIVE TrimStart(_)
TrimStart(s) ==
    IF s # <<>> /\ Head(s) \in Whitespace THEN TrimStart(Tail(s)) ELSE s
RECURSIVE TrimEnd(_)
TrimEnd(s) ==
    IF s # <<>> /\ s[Len(s)] \in Whitespace THEN TrimEnd(SubSeq(s, 1, Len(s) - 1)) ELSE s
Trim(s) == TrimEnd(TrimStart(s))

\* the opening fence, sql and newline of the pattern, case-insensitive, at position i
OpensAt(s, i) ==
    /\ i + 6 <= Len(s)
    /\ [n \in 1..7 |-> Lower(s[i + n - 1])] = Fence \o <<"s", "q", "l", "\n">>

\* the lazy group: the first closing fence at or after position j, else 0
RECURSIVE ClosesFrom(_, _)
ClosesFrom(s, j) ==
    IF j + 2 > Len(s) THEN 0
    ELSE IF SubSeq(s, j, j + 2) = Fence THEN j
    ELSE ClosesFrom(s, j + 1)

\* String.prototype.match: the leftmost position where the pattern matches
RECURSIVE SqlMatch(_, _)
SqlMatch(s, i) ==
    IF i > Len(s) THEN [found |-> FALSE, group |-> <<>>]
    ELSE IF OpensAt(s, i) /\ ClosesFrom(s, i + 7) # 0
         THEN [found |-> TRUE, group |-> SubSeq(s, i + 7, ClosesFrom(s, i + 7) - 1)]
    ELSE SqlMatch(s, i + 1)

\* sqlMatch ? sqlMatch[1].trim() : geminiText.trim()
ExtractSQL(text) ==
    LET sqlMatch == SqlMatch(text, 1)
    IN  IF sqlMatch.found THEN Trim(sqlMatch.group) ELSE Trim(text)

FencedReply == Fence \o <<"s", "q", "l", "\n", "S", "\n">> \o Fence

\* the replies of SpecSQL: up to MaxPieces pieces, one after the other
Pieces == {Fence, <<"s", "q", "l">>, <<"S", "q", "L">>, <<"\n">>, <<" ">>, <<"x">>}
PieceSeqs == UNION {[1..n -> Pieces] : n \in 0..MaxPieces}
RECURSIVE Flatten(_)
Flatten(ps) == IF ps = <<>> THEN <<>> ELSE Head(ps) \o Flatten(Tail(ps))

\* ----------------------------------------------------------------- Init
NoCalls == [generation |-> 0, warehouse |-> 0]

Init ==
    /\ conversationHistory = [i \in {} |-> <<>>]
    /\ now = 0
    /\ pc = [k \in AllRequests |-> "new"]
    /\ body = [k \in AllRequests |-> NoBody]
    /\ messageText = [k \in AllRequests |-> UndefinedText]
    /\ conversationId = [k \in AllRequests |-> Undefined]
    /\ geminiPrompt = [k \in AllRequests |-> NoPrompt]
    /\ geminiText = [k \in AllRequests |-> <<>>]
    /\ sqlQuery = [k \in AllRequests |-> <<>>]
    /\ bigQueryResult = [k \in AllRequests |-> NoRows]
    /\ last = NoExchange
    /\ responses = [k \in AllRequests |-> <<>>]
    /\ calls = [k \in AllRequests |-> NoCalls]
    /\ failures = 0
    /\ appendLog = [i \in {DefaultId, "a"} |-> <<>>]

\* ------------------------------------------------------------ chat request
\* requests are admitted in the order of their numbers
Admitted(k) == pc[k] = "new" /\ (IF k = 1 THEN TRUE ELSE pc[k - 1] # "new")
Awaiting == {"awaitSQL", "awaitBQ", "awaitNarr"}
Suspended == {k \in AllRequests : pc[k] \in Awaiting}

ChatBodies(k) ==
    [message : {NoMessage, NoText, TextOf(k)}, conversationId : ChatBodyIds]

\* the append of one turn: the store, the clock and the log of appends
Record(id, role, content) ==
    /\ conversationHistory' =
           addToConversationHistory(conversationHistory, id, role, content, now)
    /\ now' = now + 1
    /\ appendLog' = [appendLog EXCEPT ![id] = Append(@, Turn(role, content, now))]

\* res.status(500).json({ text: ... error.message })
ErrorRes(msg) == [status |-> 500, text |-> <<"An error occurred", msg>>]

\* C6 mutant: an error is swallowed, no response is sent for it
RespondUnlessError(k, b, r) ==
    /\ last' = IF r.status = 500 THEN last
               ELSE [endpoint |-> "chatBot", request |-> k, body |-> b, res |-> r]
    /\ responses' = IF r.status = 500 THEN responses
                    ELSE [responses EXCEPT ![k] = Append(@, r.status)]
    /\ pc' = [pc EXCEPT ![k] = "done"]
    /\ body' = [body EXCEPT ![k] = NoBody]
    /\ messageText' = [messageText EXCEPT ![k] = UndefinedText]
    /\ conversationId' = [conversationId EXCEPT ![k] = Undefined]
    /\ geminiPrompt' = [geminiPrompt EXCEPT ![k] = NoPrompt]
    /\ geminiText' = [geminiText EXCEPT ![k] = <<>>]
    /\ sqlQuery' = [sqlQuery EXCEPT ![k] = <<>>]
    /\ bigQueryResult' = [bigQueryResult EXCEPT ![k] = NoRows]

\* res.json / res.status(500).json of request k, after which chatBot returns
\* and its locals are gone
Respond(k, b, r) ==
    /\ last' = [endpoint |-> "chatBot", request |-> k, body |-> b, res |-> r]
    /\ responses' = [responses EXCEPT ![k] = Append(@, r.status)]
    /\ pc' = [pc EXCEPT ![k] = "done"]
    /\ body' = [body EXCEPT ![k] = NoBody]
    /\ messageText' = [messageText EXCEPT ![k] = UndefinedText]
    /\ conversationId' = [conversationId EXCEPT ![k] = Undefined]
    /\ geminiPrompt' = [geminiPrompt EXCEPT ![k] = NoPrompt]
    /\ geminiText' = [geminiText EXCEPT ![k] = <<>>]
    /\ sqlQuery' = [sqlQuery EXCEPT ![k] = <<>>]
    /\ bigQueryResult' = [bigQueryResult EXCEPT ![k] = NoRows]

\* chatBot, req.body.message missing: reading .text throws, the catch answers
ChatBotNoMessage(k, b) ==
    /\ Admitted(k)
    /\ b.message = NoMessage
    /\ Respond(k, b, ErrorRes("TypeError"))
    /\ UNCHANGED <<conversationHistory, now, calls, failures, appendLog>>

\* C11 mutant: a chat request waits while another one is suspended on its id
ChatBotExclusive(k, b) ==
    /\ Admitted(k)
    /\ b.message # NoMessage
    /\ \A j \in Suspended : conversationId[j] # OrDefault(b.conversationId)
    /\ LET text == IF b.message = NoText THEN UndefinedText ELSE b.message
           id   == OrDefault(b.conversationId)
       IN  /\ body' = [body EXCEPT ![k] = b]
           /\ messageText' = [messageText EXCEPT ![k] = text]
           /\ conversationId' = [conversationId EXCEPT ![k] = id]
           /\ Record(id, "user", text)
           /\ geminiPrompt' = [geminiPrompt EXCEPT ![k] =
                  buildPrompt(text, getConversationHistory(conversationHistory', id))]
    /\ calls' = [calls EXCEPT ![k].generation = @ + 1]
    /\ pc' = [pc EXCEPT ![k] = "awaitSQL"]
    /\ UNCHANGED <<geminiText, sqlQuery, bigQueryResult, last, responses, failures>>

\* C15 mutant: the prompt is built from the history read before the user turn
\* is recorded
ChatBotPromptFirst(k, b) ==
    /\ Admitted(k)
    /\ b.message # NoMessage
    /\ LET text == IF b.message = NoText THEN UndefinedText ELSE b.message
           id   == OrDefault(b.conversationId)
       IN  /\ body' = [body EXCEPT ![k] = b]
           /\ messageText' = [messageText EXCEPT ![k] = text]
           /\ conversationId' = [conversationId EXCEPT ![k] = id]
           /\ Record(id, "user", text)
           /\ geminiPrompt' = [geminiPrompt EXCEPT ![k] =
                  buildPrompt(text, getConversationHistory(conversationHistory, id))]
    /\ calls' = [calls EXCEPT ![k].generation = @ + 1]
    /\ pc' = [pc EXCEPT ![k] = "awaitSQL"]
    /\ UNCHANGED <<geminiText, sqlQuery, bigQueryResult, last, responses, failures>>

\* chatBot up to the first await: the user turn, the prompt, the SQL call
ChatBot(k, b) ==
    /\ Admitted(k)
    /\ b.message # NoMessage
    /\ LET text == IF b.message = NoText THEN UndefinedText ELSE b.message
           id   == OrDefault(b.conversationId)
       IN  /\ body' = [body EXCEPT ![k] = b]
           /\ messageText' = [messageText EXCEPT ![k] = text]
           /\ conversationId' = [conversationId EXCEPT ![k] = id]
           /\ Record(id, "user", text)
           /\ geminiPrompt' = [geminiPrompt EXCEPT ![k] =
                  buildPrompt(text, getConversationHistory(conversationHistory', id))]
    /\ calls' = [calls EXCEPT ![k].generation = @ + 1]
    /\ pc' = [pc EXCEPT ![k] = "awaitSQL"]
    /\ UNCHANGED <<geminiText, sqlQuery, bigQueryResult, last, responses, failures>>

\* C3 mutant: the failure handler rolls the conversation back
FailRollsBack(k, at, msg) ==
    /\ pc[k] = at
    /\ failures < MaxFailures
    /\ failures' = failures + 1
    /\ Respond(k, body[k], ErrorRes(msg))
    /\ conversationHistory' =
           clearConversationHistory(conversationHistory, conversationId[k])
    /\ UNCHANGED <<now, calls, appendLog>>

\* C12 mutant: a rejected call is issued again instead of ending the request
FailRetries(k, at, msg) ==
    /\ pc[k] = at
    /\ failures < MaxFailures
    /\ failures' = failures + 1
    /\ calls' = IF at = "awaitBQ" THEN [calls EXCEPT ![k].warehouse = @ + 1]
                ELSE [calls EXCEPT ![k].generation = @ + 1]
    /\ UNCHANGED <<conversationHistory, now, pc, body, messageText, conversationId,
                   geminiPrompt, geminiText, sqlQuery, bigQueryResult, last,
                   responses, appendLog>>

\* a rejected await: the catch of chatBot answers 500, nothing else runs
Fail(k, at, msg) ==
    /\ pc[k] = at
    /\ failures < MaxFailures
    /\ failures' = failures + 1
    /\ Respond(k, body[k], ErrorRes(msg))
    /\ UNCHANGED <<conversationHistory, now, calls, appendLog>>

SQLFail(k)  == Fail(k, "awaitSQL", "generation")
BQFail(k)   == Fail(k, "awaitBQ", "warehouse")
NarrFail(k) == Fail(k, "awaitNarr", "narration")

\* getSQLFromGemini resumes with the reply, then runBigQuery is called
SQLReply(k, reply) ==
    /\ pc[k] = "awaitSQL"
    /\ geminiText' = [geminiText EXCEPT ![k] = reply]
    /\ sqlQuery' = [sqlQuery EXCEPT ![k] = ExtractSQL(reply)]
    /\ calls' = [calls EXCEPT ![k].warehouse = @ + 1]
    /\ pc' = [pc EXCEPT ![k] = "awaitBQ"]
    /\ UNCHANGED <<conversationHistory, now, body, messageText, conversationId,
                   geminiPrompt, bigQueryResult, last, responses, failures,
                   appendLog>>

\* runBigQuery resumes with the rows, then formatBigQueryResult calls the model
BQReply(k, rows) ==
    /\ pc[k] = "awaitBQ"
    /\ bigQueryResult' = [bigQueryResult EXCEPT ![k] = rows]
    /\ calls' = [calls EXCEPT ![k].generation = @ + 1]
    /\ pc' = [pc EXCEPT ![k] = "awaitNarr"]
    /\ UNCHANGED <<conversationHistory, now, body, messageText, conversationId,
                   geminiPrompt, geminiText, sqlQuery, last, responses, failures,
                   appendLog>>

\* C14 mutant: the response echoes the id of the request body, not the id the
\* turns were recorded under
NarrReplyEchoesBodyId(k, formattedResponse) ==
    /\ pc[k] = "awaitNarr"
    /\ Record(conversationId[k], "assistant", formattedResponse)
    /\ Respond(k, body[k], [status |-> 200, text |-> formattedResponse,
                            conversationId |-> body[k].conversationId])
    /\ UNCHANGED <<calls, failures>>

\* formatBigQueryResult resumes: the assistant turn, then res.json
NarrReply(k, formattedResponse) ==
    /\ pc[k] = "awaitNarr"
    /\ Record(conversationId[k], "assistant", formattedResponse)
    /\ Respond(k, body[k], [status |-> 200, text |-> formattedResponse,
                            conversationId |-> conversationId[k]])
    /\ UNCHANGED <<calls, failures>>

\* -------------------------------------------------- the other two endpoints
IdBody(id) == [message |-> NoMessage, conversationId |-> id]

\* C9 mutant: clearing an id that has no history is reported as a failure
ClearReportsMissing(bodyId) ==
    LET id == OrDefault(bodyId)
        found == id \in DOMAIN conversationHistory
    IN  /\ conversationHistory' = clearConversationHistory(conversationHistory, id)
        /\ appendLog' = [appendLog EXCEPT ![id] = <<>>]
        /\ last' = [endpoint |-> "clearConversation", request |-> 0,
                    body |-> IdBody(bodyId),
                    res |-> [status |-> IF found THEN 200 ELSE 500, success |-> found,
                             message |-> <<"Conversation history cleared for ID", id>>,
                             conversationId |-> id]]
        /\ UNCHANGED <<now, pc, body, messageText, conversationId, geminiPrompt,
                       geminiText, sqlQuery, bigQueryResult, responses, calls,
                       failures>>

ClearConversation(bodyId) ==
    LET id == OrDefault(bodyId)
    IN  /\ conversationHistory' = clearConversationHistory(conversationHistory, id)
        /\ appendLog' = [appendLog EXCEPT ![id] = <<>>]
        /\ last' = [endpoint |-> "clearConversation", request |-> 0,
                    body |-> IdBody(bodyId),
                    res |-> [status |-> 200, success |-> TRUE,
                             message |-> <<"Conversation history cleared for ID", id>>,
                             conversationId |-> id]]
        /\ UNCHANGED <<now, pc, body, messageText, conversationId, geminiPrompt,
                       geminiText, sqlQuery, bigQueryResult, responses, calls,
                       failures>>

\* C5 mutant: the read creates the entry of an absent id
GetCreatesEntry(queryId) ==
    LET id == OrDefault(queryId)
        history == getConversationHistory(conversationHistory, id)
    IN  /\ last' = [endpoint |-> "getConversationHistory", request |-> 0,
                    body |-> IdBody(queryId),
                    res |-> [status |-> 200, conversationId |-> id,
                             history |-> history, messageCount |-> Len(history)]]
        /\ conversationHistory' =
               IF id \in DOMAIN conversationHistory THEN conversationHistory
               ELSE conversationHistory @@ (id :> <<>>)
        /\ UNCHANGED <<now, pc, body, messageText, conversationId, geminiPrompt,
                       geminiText, sqlQuery, bigQueryResult, responses, calls,
                       failures, appendLog>>

GetConversationHistory(queryId) ==
    LET id == OrDefault(queryId)
        history == getConversationHistory(conversationHistory, id)
    IN  /\ last' = [endpoint |-> "getConversationHistory", request |-> 0,
                    body |-> IdBody(queryId),
                    res |-> [status |-> 200, conversationId |-> id,
                             history |-> history, messageCount |-> Len(history)]]
        /\ UNCHANGED <<conversationHistory, now, pc, body, messageText,
                       conversationId, geminiPrompt, geminiText, sqlQuery,
                       bigQueryResult, responses, calls, failures, appendLog>>

\* ---------------------------------------------------------- specifications
NextChat ==
    \/ \E k \in Requests : \E b \in ChatBodies(k) : ChatBotNoMessage(k, b)
    \/ \E k \in Requests : \E b \in ChatBodies(k) :
           Cardinality(Suspended) < MaxInFlight /\ ChatBot(k, b)
    \/ \E k \in Requests : SQLReply(k, FencedReply)
    \/ \E k \in Requests : SQLFail(k)
    \/ \E k \in Requests : BQReply(k, Rows)
    \/ \E k \in Requests : BQFail(k)
    \/ \E k \in Requests : NarrReply(k, AnswerOf(k))
    \/ \E k \in Requests : NarrFail(k)

Next ==
    \/ NextChat
    \/ \E i \in AdminBodyIds : ClearConversation(i)
    \/ \E i \in AdminBodyIds : GetConversationHistory(i)

Spec == Init /\ [][Next]_vars

\* Long conversations: well-formed chat requests for the default id, enough
\* of them to fill a history beyond MaxHistory turns.
LongBody(k) == [message |-> TextOf(k), conversationId |-> Undefined]

NextLong ==
    \/ \E k \in LongRequests :
           Cardinality(Suspended) < MaxLongInFlight /\ ChatBot(k, LongBody(k))
    \/ \E k \in LongRequests : SQLReply(k, FencedReply)
    \/ \E k \in LongRequests : BQReply(k, Rows)
    \/ \E k \in LongRequests : NarrReply(k, AnswerOf(k))
    \/ \E i \in LongBodyIds : ClearConversation(i)
    \/ \E i \in LongBodyIds : GetConversationHistory(i)

SpecLong == Init /\ [][NextLong]_vars

\* SQL extraction: one chat request whose SQL reply is any string made of pieces
NextSQL ==
    \/ ChatBot(1, LongBody(1))
    \/ pc[1] = "awaitSQL" /\ \E ps \in PieceSeqs : SQLReply(1, Flatten(ps))

SpecSQL == Init /\ [][NextSQL]_vars

\* Chat requests alone: no clear and no read of the history
SpecChat == Init /\ [][NextChat]_vars

\* Chat requests alone, every external call of which eventually resolves or
\* fails
Resolve(k) ==
    \/ SQLReply(k, FencedReply) \/ SQLFail(k)
    \/ BQReply(k, Rows) \/ BQFail(k)
    \/ NarrReply(k, AnswerOf(k)) \/ NarrFail(k)

LiveSpec == Init /\ [][NextChat]_vars /\ \A k \in Requests : WF_vars(Resolve(k))

\* ------------------------------------------------------------------ claims
Ids == {DefaultId, "a"}

\* the last n elements of s, in order
LastN(s, n) ==
    LET m == IF Len(s) < n THEN Len(s) ELSE n
    IN  [i \in 1..m |-> s[Len(s) - m + i]]

\* C1: in every reachable state every history held in the store has at most
\* 10 turns.
C1_HistoryBound ==
    \A id \in DOMAIN conversationHistory : Len(conversationHistory[id]) <= 10

\* an 11th turn was appended to the default history and 10 turns are held
C1_Witness ==
    /\ DefaultId \in DOMAIN conversationHistory
    /\ Len(conversationHistory[DefaultId]) = 10
    /\ Len(appendLog[DefaultId]) > 10

\* C2: after N appends for an id and no clear since, get(id) is the last
\* min(N, 10) appended turns in the order of their appends.
C2_MostRecentInOrder ==
    \A id \in Ids :
        LET N == Len(appendLog[id])
            got == getConversationHistory(conversationHistory, id)
        IN  /\ Len(got) = (IF N < 10 THEN N ELSE 10)
            /\ got = LastN(appendLog[id], 10)

\* exactly 11 appends: the oldest turn alone is gone
C2_Witness ==
    /\ Len(appendLog[DefaultId]) = 11
    /\ getConversationHistory(conversationHistory, DefaultId) = Tail(appendLog[DefaultId])

\* the contents of the turns held for any id
StoredContents ==
    UNION {{conversationHistory[id][n].content : n \in 1..Len(conversationHistory[id])}
           : id \in DOMAIN conversationHistory}

\* request k answers 500 after its user turn was recorded
FailsAfterUserTurn(k) == pc[k] \in Awaiting /\ responses'[k] = <<500>>

\* C3: when a chat request fails at a stage after its user turn was recorded,
\* it makes no further external call, it appends no assistant turn, then or
\* later, and the failure leaves the store as it was (the user turn is not
\* rolled back).
C3_AbortKeepsUserTurn ==
    /\ [][\A k \in Requests : FailsAfterUserTurn(k) =>
              /\ pc'[k] = "done"
              /\ calls'[k] = calls[k]
              /\ conversationHistory' = conversationHistory]_vars
    /\ [](\A k \in Requests : responses[k] = <<500>> =>
              /\ pc[k] = "done"
              /\ AnswerOf(k) \notin StoredContents)
    /\ [][\A k \in Requests : pc[k] = "done" => pc'[k] = "done" /\ calls'[k] = calls[k]]_vars

\* the warehouse call of request 1 failed and its user turn is still stored
C3_Witness ==
    /\ responses[1] = <<500>>
    /\ calls[1] = [generation |-> 1, warehouse |-> 1]
    /\ TextOf(1) \in StoredContents
    /\ AnswerOf(1) \notin StoredContents

\* C4: right after clear(id), get(id) is empty and id is not among listIds,
\* whether or not id had an entry; a second clear(id) changes nothing; the
\* clear raises no error.
C4_ClearRemovesEntry ==
    [][\A i \in AdminBodyIds : ClearConversation(i) =>
          LET id == OrDefault(i)
              store == conversationHistory'
          IN  /\ getConversationHistory(store, id) = <<>>
              /\ id \notin getAllConversationIds(store)
              /\ clearConversationHistory(store, id) = store
              /\ getAllConversationIds(store) = getAllConversationIds(conversationHistory) \ {id}
              /\ last'.res.status = 200]_vars

\* the default history was cleared while a request that had written to it
\* is still running, and it is gone
C4_Witness ==
    /\ last.endpoint = "clearConversation"
    /\ last.res.conversationId = DefaultId
    /\ \E k \in Requests : pc[k] \in Awaiting /\ conversationId[k] = DefaultId
    /\ DefaultId \notin getAllConversationIds(conversationHistory)

\* C5: a history read leaves the known ids and every stored history as they
\* were, creates no entry for an absent id, returns the stored turns, and its
\* messageCount is the number of turns it returns.
C5_ReadDoesNotMutate ==
    [][\A i \in AdminBodyIds : GetConversationHistory(i) =>
          /\ conversationHistory' = conversationHistory
          /\ DOMAIN conversationHistory' = DOMAIN conversationHistory
          /\ last'.res.history = getConversationHistory(conversationHistory, OrDefault(i))
          /\ last'.res.messageCount = Len(last'.res.history)]_vars

\* an id with no entry was read: no turns came back and no entry exists
C5_Witness ==
    /\ last.endpoint = "getConversationHistory"
    /\ last.res.messageCount = 0
    /\ last.res.conversationId \notin DOMAIN conversationHistory
    /\ now > 0

\* C6: a chat request that is waiting on an external call is eventually
\* answered; no request is answered more than once, and a request has
\* finished exactly when it has its one answer (200 or 500).
C6_AlwaysAnswered ==
    /\ \A k \in Requests : (pc[k] \in Awaiting) ~> (Len(responses[k]) = 1)
    /\ [](\A k \in Requests :
              /\ Len(responses[k]) <= 1
              /\ (pc[k] = "done") <=> (Len(responses[k]) = 1)
              /\ \A n \in 1..Len(responses[k]) : responses[k][n] \in {200, 500})

\* a request whose narration call failed has its one 500 answer
C6_Witness ==
    \E k \in Requests :
        /\ responses[k] = <<500>>
        /\ calls[k] = [generation |-> 2, warehouse |-> 1]
        /\ pc[k] = "done"

\* the last turn stored for id
LastTurn(store, id) == store[id][Len(store[id])]

\* C7: a chat request that omits conversationId records its user turn and its
\* assistant turn in the history of "default" and answers with that id; a
\* clear that omits it removes the history of "default"; a history read that
\* omits it returns the history of "default".
C7_OmittedIdIsDefault ==
    [][/\ \A k \in Requests : \A m \in {NoText, TextOf(k)} :
              ChatBot(k, [message |-> m, conversationId |-> Undefined]) =>
                  /\ "default" \in DOMAIN conversationHistory'
                  /\ LastTurn(conversationHistory', "default").content =
                         (IF m = NoText THEN UndefinedText ELSE m)
                  /\ LastTurn(conversationHistory', "default").role = "user"
       /\ \A k \in Requests :
              (body[k].conversationId = Undefined /\ NarrReply(k, AnswerOf(k))) =>
                  /\ LastTurn(conversationHistory', "default").content = AnswerOf(k)
                  /\ LastTurn(conversationHistory', "default").role = "assistant"
                  /\ last'.res.conversationId = "default"
       /\ ClearConversation(Undefined) =>
              /\ "default" \notin DOMAIN conversationHistory'
              /\ \A id \in DOMAIN conversationHistory \ {"default"} :
                     id \in DOMAIN conversationHistory'
       /\ GetConversationHistory(Undefined) =>
              /\ last'.res.conversationId = "default"
              /\ last'.res.history =
                     IF "default" \in DOMAIN conversationHistory
                     THEN conversationHistory["default"] ELSE <<>>]_vars

\* two running requests that both omitted conversationId share one history
C7_Witness ==
    /\ pc[1] \in Awaiting /\ body[1].conversationId = Undefined
    /\ pc[2] \in Awaiting /\ body[2].conversationId = Undefined
    /\ "default" \in DOMAIN conversationHistory
    /\ \E m, n \in 1..Len(conversationHistory["default"]) :
           /\ conversationHistory["default"][m].content = TextOf(1)
           /\ conversationHistory["default"][n].content = TextOf(2)

\* C8: a chat request whose body has no message object, or a message object
\* without text, is answered with an error status.
C8_MalformedBodyRejected ==
    (last.endpoint = "chatBot" /\ last.body.message \in {NoMessage, NoText})
        => last.res.status >= 400

TagAt(s, i) ==
    /\ i + 6 <= Len(s)
    /\ s[i] = BQ /\ s[i + 1] = BQ /\ s[i + 2] = BQ
    /\ s[i + 3] \in {"s", "S"} /\ s[i + 4] \in {"q", "Q"} /\ s[i + 5] \in {"l", "L"}
    /\ s[i + 6] = "\n"
FenceAt(s, j) ==
    j + 2 <= Len(s) /\ s[j] = BQ /\ s[j + 1] = BQ /\ s[j + 2] = BQ
Blocks(s) ==
    {ij \in (1..Len(s)) \X (1..Len(s)) :
        TagAt(s, ij[1]) /\ ij[2] >= ij[1] + 7 /\ FenceAt(s, ij[2])}
\* the first block: the leftmost opening, closed by the nearest fence
FirstBlock(s) ==
    CHOOSE ij \in Blocks(s) :
        \A other \in Blocks(s) :
            ij[1] < other[1] \/ (ij[1] = other[1] /\ ij[2] <= other[2])

\* u is t without its leading and trailing whitespace
IsTrimOf(u, t) ==
    \E a, b \in 0..Len(t) :
        /\ a + b <= Len(t)
        /\ \A n \in 1..a : t[n] \in {" ", "\n", "\t", "\r"}
        /\ \A n \in 1..b : t[Len(t) + 1 - n] \in {" ", "\n", "\t", "\r"}
        /\ Len(u) = Len(t) - a - b
        /\ \A n \in 1..Len(u) : u[n] = t[a + n]
        /\ Len(u) > 0 => u[1] \notin {" ", "\n", "\t", "\r"}
        /\ Len(u) > 0 => u[Len(u)] \notin {" ", "\n", "\t", "\r"}

\* C10: the extracted SQL is the trimmed interior of the reply's first fenced
\* block tagged sql (in any case) when the reply has one, and the trimmed
\* whole reply when it has none.
C10_ExtractSQL ==
    \A k \in Requests : pc[k] = "awaitBQ" =>
        LET s == geminiText[k]
        IN  IF Blocks(s) # {}
            THEN LET ij == FirstBlock(s)
                 IN  IsTrimOf(sqlQuery[k],
                              [n \in 1..(ij[2] - ij[1] - 7) |-> s[ij[1] + 6 + n]])
            ELSE IsTrimOf(sqlQuery[k], s)

\* a block tagged SqL whose interior " x" is returned as "x"
C10_Witness ==
    /\ pc[1] = "awaitBQ"
    /\ geminiText[1] = <<BQ, BQ, BQ, "S", "q", "L", "\n", " ", "x", BQ, BQ, BQ>>
    /\ sqlQuery[1] = <<"x">>

\* the contents of the turns of h, in order
ContentsOf(h) == [n \in 1..Len(h) |-> h[n].content]

\* a chat body for request k that names the conversation request j runs on
SameIdBody(k, j) == [message |-> TextOf(k), conversationId |-> body[j].conversationId]

\* C11: chat requests for one id are not mutually exclusive. While a request
\* is suspended on an id, another request for that id can start and its user
\* turn lands after the turns already held (so both user turns can precede
\* both assistant turns); and when two requests for one id both await their
\* narration, either one can resume first and append its assistant turn
\* while the other stays suspended (so the two assistant turns can land in
\* either order).
C11_NoMutualExclusion ==
    \A j, k \in Requests : (j # k /\ pc[j] \in Awaiting) =>
        /\ (Admitted(k) /\ Cardinality(Suspended) < MaxInFlight) =>
               ENABLED (/\ ChatBot(k, SameIdBody(k, j))
                        /\ conversationId'[k] = conversationId[j]
                        /\ pc'[j] = pc[j]
                        /\ LastTurn(conversationHistory', conversationId[j]).content
                               = TextOf(k))
        /\ (pc[j] = "awaitNarr" /\ pc[k] = "awaitNarr"
                /\ conversationId[j] = conversationId[k]) =>
               ENABLED (/\ NarrReply(j, AnswerOf(j))
                        /\ pc'[k] = "awaitNarr"
                        /\ LastTurn(conversationHistory', conversationId[k]).content
                               = AnswerOf(j))

\* both user turns precede both assistant turns, and the request that started
\* second was answered first
C11_Witness ==
    /\ DefaultId \in DOMAIN conversationHistory
    /\ ContentsOf(conversationHistory[DefaultId])
           = <<TextOf(1), TextOf(2), AnswerOf(2), AnswerOf(1)>>

\* the external calls a request has made when it is at each stage
CallsAt(stage) ==
    CASE stage = "new"       -> {[generation |-> 0, warehouse |-> 0]}
      [] stage = "awaitSQL"  -> {[generation |-> 1, warehouse |-> 0]}
      [] stage = "awaitBQ"   -> {[generation |-> 1, warehouse |-> 1]}
      [] stage = "awaitNarr" -> {[generation |-> 2, warehouse |-> 1]}
      [] stage = "done"      -> {[generation |-> 0, warehouse |-> 0],
                                 [generation |-> 1, warehouse |-> 0],
                                 [generation |-> 1, warehouse |-> 1],
                                 [generation |-> 2, warehouse |-> 1]}

\* the stage that follows each stage when its call succeeds
NextStage(stage) ==
    CASE stage = "new"       -> "awaitSQL"
      [] stage = "awaitSQL"  -> "awaitBQ"
      [] stage = "awaitBQ"   -> "awaitNarr"
      [] stage = "awaitNarr" -> "done"
      [] stage = "done"      -> "done"

\* C12: within one request the stages run in the order user turn, SQL prompt,
\* SQL generation, query execution, narration, assistant turn; a stage starts
\* only when the call before it has resolved, no call is made twice, and a
\* request makes at most two generation calls and at most one warehouse call.
C12_StagesInOrder ==
    /\ [](\A k \in Requests :
              /\ calls[k] \in CallsAt(pc[k])
              /\ calls[k].generation <= 2 /\ calls[k].warehouse <= 1
              /\ pc[k] \in Awaiting =>
                     /\ geminiPrompt[k].built
                     /\ (geminiText[k] # <<>>) = (pc[k] # "awaitSQL")
                     /\ (bigQueryResult[k] # NoRows) = (pc[k] = "awaitNarr")
                     /\ AnswerOf(k) \notin StoredContents
              /\ responses[k] = <<200>> =>
                     calls[k] = [generation |-> 2, warehouse |-> 1])
    /\ [][\A k \in Requests : pc'[k] # pc[k] =>
              /\ pc'[k] \in {NextStage(pc[k]), "done"}
              /\ pc[k] = "new" /\ pc'[k] = "awaitSQL" =>
                     /\ now' = now + 1
                     /\ geminiPrompt'[k].built
                     /\ calls'[k] = [generation |-> 1, warehouse |-> 0]
              /\ pc[k] \in Awaiting /\ pc'[k] \in Awaiting =>
                     /\ conversationHistory' = conversationHistory
                     /\ calls'[k].generation + calls'[k].warehouse
                            = calls[k].generation + calls[k].warehouse + 1
              /\ pc'[k] = "done" =>
                     /\ calls'[k] = calls[k]
                     /\ (now' = now + 1) = (pc[k] = "awaitNarr" /\ responses'[k] = <<200>>)]_vars

\* a request went through every stage: two generation calls, one warehouse
\* call, and its assistant turn is the last turn recorded
C12_Witness ==
    /\ last.endpoint = "chatBot" /\ last.res.status = 200
    /\ calls[last.request] = [generation |-> 2, warehouse |-> 1]
    /\ LastTurn(conversationHistory, last.res.conversationId).content
           = AnswerOf(last.request)

\* request k builds its SQL prompt in this step
BuildsPrompt(k) == pc[k] = "new" /\ pc'[k] = "awaitSQL"

\* the lines of context c render the turns of history h, one line per turn in
\* the stored order, a user turn as a User line and any other as an Assistant
\* line
Renders(c, h) ==
    /\ Len(c) = Len(h)
    /\ \A n \in 1..Len(h) :
           /\ c[n].content = h[n].content
           /\ c[n].speaker = (IF h[n].role = "user" THEN "User" ELSE "Assistant")

\* the lines of c are User and Assistant lines in turn
Alternates(c) == \A n \in 1..(Len(c) - 1) : c[n].speaker # c[n + 1].speaker

\* C13 as stated: the context embedded in the SQL prompt is the turns stored
\* for the request's id when the prompt is built, in stored order, rendered
\* as alternating User and Assistant lines.
C13_ContextAlternates ==
    [][\A k \in Requests : BuildsPrompt(k) =>
           /\ Renders(geminiPrompt'[k].context,
                      getConversationHistory(conversationHistory', conversationId'[k]))
           /\ Alternates(geminiPrompt'[k].context)]_vars

\* C13 amended: the context embedded in the SQL prompt is the turns stored
\* for the request's id when the prompt is built, in stored order, each turn
\* rendered as a User line or an Assistant line according to its role (the
\* lines alternate only when the stored roles do).
C13_ContextIsStoredHistory ==
    [][\A k \in Requests : BuildsPrompt(k) =>
           Renders(geminiPrompt'[k].context,
                   getConversationHistory(conversationHistory', conversationId'[k]))]_vars

\* a prompt was built over a history holding an earlier exchange: its context
\* has a User line, an Assistant line and the new User line
C13_Witness ==
    \E k \in Requests :
        /\ pc[k] = "awaitSQL"
        /\ Len(geminiPrompt[k].context) = 3
        /\ geminiPrompt[k].context[2].speaker = "Assistant"
        /\ geminiPrompt[k].context[3] = [speaker |-> "User", content |-> TextOf(k)]

\* request k is answered 200 in this step
Succeeds(k) == pc[k] = "awaitNarr" /\ responses'[k] = <<200>>

\* C14: on success the text of the response is the narration reply as it was
\* received, and it is the content of the assistant turn the request appends;
\* the conversationId of the response is the id under which the request's
\* user turn and its assistant turn were both recorded.
C14_SuccessResponse ==
    [][\A k \in Requests :
           /\ BuildsPrompt(k) =>
                  /\ conversationId'[k] \in DOMAIN conversationHistory'
                  /\ LastTurn(conversationHistory', conversationId'[k])
                         = Turn("user", messageText'[k], now)
           /\ (pc[k] \in Awaiting /\ pc'[k] \in Awaiting) =>
                  conversationId'[k] = conversationId[k]
           /\ Succeeds(k) =>
                  /\ last'.request = k
                  /\ last'.res = [status |-> 200, text |-> AnswerOf(k),
                                  conversationId |-> conversationId[k]]
                  /\ conversationId[k] \in DOMAIN conversationHistory'
                  /\ LastTurn(conversationHistory', conversationId[k])
                         = Turn("assistant", last'.res.text, now)]_vars

\* a request that named no id was answered 200 with the id default, and the
\* text of the response is the content of the turn recorded last for default
C14_Witness ==
    /\ last.endpoint = "chatBot" /\ last.res.status = 200
    /\ last.body.conversationId = Undefined
    /\ last.res.conversationId = DefaultId
    /\ last.res.text = AnswerOf(last.request)
    /\ LastTurn(conversationHistory, DefaultId).role = "assistant"
    /\ LastTurn(conversationHistory, DefaultId).content = last.res.text

\* C15: under any interleaving, the history a chat request reads when it
\* builds its SQL prompt is not empty and its last turn is the request's own
\* user turn, so the current question is both the last line of the context
\* and the question slot of the prompt.
C15_OwnTurnIsLast ==
    \A k \in Requests : pc[k] \in Awaiting =>
        LET c == geminiPrompt[k].context
        IN  /\ geminiPrompt[k].built
            /\ Len(c) >= 1
            /\ c[Len(c)] = [speaker |-> "User", content |-> messageText[k]]
            /\ geminiPrompt[k].question = messageText[k]

\* request 2 built its prompt while request 1 was suspended on the same id:
\* the context holds the turn of request 1 and ends with its own
C15_Witness ==
    /\ pc[1] \in Awaiting /\ pc[2] = "awaitSQL"
    /\ conversationId[1] = conversationId[2]
    /\ geminiPrompt[2].context
           = <<[speaker |-> "User", content |-> TextOf(1)],
               [speaker |-> "User", content |-> TextOf(2)]>>

\* the step leaves every id other than id as it was: known or not, and with
\* the same history
OthersUntouched(id) ==
    \A other \in Ids \ {id} :
        /\ (other \in getAllConversationIds(conversationHistory'))
               = (other \in getAllConversationIds(conversationHistory))
        /\ getConversationHistory(conversationHistory', other)
               = getConversationHistory(conversationHistory, other)

\* C16: conversations are isolated by id. A step of a chat request for an id,
\* whether the request goes on, succeeds or fails, and a clear of an id,
\* never change the history held for another id and never add or remove
\* another id from the known ids.
C16_IsolatedById ==
    [][/\ \A k \in Requests : \A b \in ChatBodies(k) :
              (ChatBotNoMessage(k, b) \/ ChatBot(k, b)) =>
                  OthersUntouched(OrDefault(b.conversationId))
       /\ \A k \in Requests : (pc[k] \in Awaiting /\ pc'[k] # pc[k]) =>
              OthersUntouched(conversationId[k])
       /\ \A i \in AdminBodyIds : ClearConversation(i) =>
              OthersUntouched(OrDefault(i))]_vars

\* the conversation a was cleared while it held a turn of a request still in
\* flight, and the default conversation still holds its turns
C16_Witness ==
    /\ last.endpoint = "clearConversation" /\ last.res.conversationId = "a"
    /\ \E k \in Requests : pc[k] \in Awaiting /\ conversationId[k] = "a"
    /\ "a" \notin getAllConversationIds(conversationHistory)
    /\ DefaultId \in getAllConversationIds(conversationHistory)
    /\ Len(conversationHistory[DefaultId]) = 2

\* the places <<id, n>> of the store that hold a turn of this role
TurnsWith(role) ==
    {p \in UNION {{<<id, n>> : n \in 1..Len(conversationHistory[id])}
                  : id \in DOMAIN conversationHistory} :
        conversationHistory[p[1]][p[2]].role = role}

\* the places of the store that hold a turn of this content
Positions(content) ==
    {p \in UNION {{<<id, n>> : n \in 1..Len(conversationHistory[id])}
                  : id \in DOMAIN conversationHistory} :
        conversationHistory[p[1]][p[2]].content = content}

AllDone == \A k \in Requests : pc[k] = "done"

\* the requests that got as far as processMessage: their body had a message
Recorded == {k \in Requests : calls[k].generation >= 1}
Successful == {k \in Requests : responses[k] = <<200>>}

\* the content of the user turn of request k: its text, or undefined when
\* its message had none
OwnQuestion(k) == IF Positions(TextOf(k)) # {} THEN TextOf(k) ELSE UndefinedText

\* one assistant turn per successful request and none for the others, each
\* behind a user turn of its own request in the same history
AssistantTurnsKept ==
    /\ Cardinality(TurnsWith("assistant")) = Cardinality(Successful)
    /\ \A k \in Requests :
           /\ Cardinality(Positions(AnswerOf(k))) = (IF k \in Successful THEN 1 ELSE 0)
           /\ Cardinality(Positions(TextOf(k))) <= 1
           /\ k \in Successful =>
                  \E p \in Positions(AnswerOf(k)) : \E m \in 1..(p[2] - 1) :
                      /\ conversationHistory[p[1]][m].role = "user"
                      /\ conversationHistory[p[1]][m].content = OwnQuestion(k)

\* C17 as stated: with no clear and at most 10 turns appended in total, once
\* all requests have finished the histories hold exactly one user turn for
\* each request and exactly one assistant turn for each successful request,
\* each request's user turn before its own assistant turn.
C17_OneUserTurnPerRequest ==
    (AllDone /\ now <= MaxHistory) =>
        /\ Cardinality(TurnsWith("user")) = Cardinality(Requests)
        /\ AssistantTurnsKept

\* C17 amended: the same, with one user turn for each request whose body
\* carried a message object (a request without one is answered 500 before
\* any turn is recorded).
C17_NoTurnLost ==
    (AllDone /\ now <= MaxHistory) =>
        /\ Cardinality(TurnsWith("user")) = Cardinality(Recorded)
        /\ AssistantTurnsKept

\* two requests ran concurrently on the default conversation and both
\* succeeded: all four turns are held
C17_Witness ==
    /\ AllDone
    /\ Successful = Requests
    /\ DefaultId \in DOMAIN conversationHistory
    /\ ContentsOf(conversationHistory[DefaultId])
           = <<TextOf(1), TextOf(2), AnswerOf(1), AnswerOf(2)>>

\* request k is suspended and its id was cleared after it recorded its user
\* turn: that turn is not among the turns appended since the last clear
ClearedUnder(k) ==
    /\ pc[k] \in Awaiting
    /\ \A n \in 1..Len(appendLog[conversationId[k]]) :
           appendLog[conversationId[k]][n].content # messageText[k]

\* C18 as stated: when a clear of an id ran while a chat request for it was
\* suspended and the request then succeeds, the history of the id afterwards
\* is the assistant turn of that request alone.
C18_AssistantTurnAlone ==
    [][\A k \in Requests : (ClearedUnder(k) /\ Succeeds(k)) =>
           getConversationHistory(conversationHistory', conversationId[k])
               = <<Turn("assistant", AnswerOf(k), now)>>]_vars

\* C18 amended: the clear does not cancel the request. When the request then
\* succeeds its assistant turn is appended behind the turns recorded for the
\* id since that clear, none of which is its own user turn; when there are
\* none, the append re-creates the entry and the history is that assistant
\* turn alone.
C18_ClearDoesNotCancel ==
    [][\A k \in Requests : (ClearedUnder(k) /\ Succeeds(k)) =>
           LET id == conversationId[k]
               after == getConversationHistory(conversationHistory', id)
           IN  /\ after = Append(getConversationHistory(conversationHistory, id),
                                 Turn("assistant", AnswerOf(k), now))
               /\ getConversationHistory(conversationHistory, id) = appendLog[id]
               /\ appendLog[id] = <<>> =>
                      /\ id \notin getAllConversationIds(conversationHistory)
                      /\ id \in getAllConversationIds(conversationHistory')
                      /\ after = <<Turn("assistant", AnswerOf(k), now)>>]_vars

\* a request was answered 200 after a clear of its id: the history of the id
\* is its assistant turn alone
C18_Witness ==
    /\ last.endpoint = "chatBot" /\ last.res.status = 200
    /\ getConversationHistory(conversationHistory, last.res.conversationId)
           = <<Turn("assistant", AnswerOf(last.request), now - 1)>>

\* C19: in every reachable state every known id has a history of 1 to 10
\* turns, and an id is among the ids getAllConversationIds returns exactly
\* when at least one turn was appended for it since its last clear (or since
\* start-up when it was never cleared).
C19_KnownIdsHaveTurns ==
    /\ \A id \in getAllConversationIds(conversationHistory) :
           /\ Len(conversationHistory[id]) >= 1
           /\ Len(conversationHistory[id]) <= 10
    /\ getAllConversationIds(conversationHistory) \subseteq Ids
    /\ \A id \in Ids :
           (id \in getAllConversationIds(conversationHistory)) = (appendLog[id] # <<>>)

\* the default conversation was cleared after its first two turns and ten
\* turns were appended since: it is known and holds ten turns
C19_Witness ==
    /\ now = 12
    /\ Len(appendLog[DefaultId]) = 10
    /\ getAllConversationIds(conversationHistory) = {DefaultId}
    /\ Len(conversationHistory[DefaultId]) = 10

====
